---------------------------- MODULE Spec2Model ----------------------------
(***************************************************************************)
(* Model of the customer-analysis backend:                                 *)
(*   simple_analyzer.py  analyze_csv: CSV -> dashboard report (data.json)  *)
(*   backend_server.py   upload_csv / get_dashboard_data around it         *)
(*                                                                         *)
(* Amounts are whole EUR; values the code rounds to two decimals are kept  *)
(* in hundredths.  Timestamps are ticks, TicksPerDay ticks to a day, so    *)
(* that Duration.total_days() is a real truncation.                        *)
(***************************************************************************)
EXTENDS Integers, Sequences, FiniteSets, TLC

\* ------------------------------------------------------------------ bounds
NumCust == 3
MaxRows == 3
MaxClock == 1
TicksPerDay == 2

\* ------------------------------------------------------- program constants
PremiumMin == 1000
StandardMin == 200
AktivMaxTage == 30
InaktivMaxTage == 90
TopN == 30
NULL == -1

DACH_COUNTRIES == {"Germany", "Austria", "Switzerland"}
required_columns == {"customer_id", "transaction_id", "total", "date"}
AllColumns == required_columns \cup {"country"}

\* ------------------------------------------------------------- input space
CustomerIds == 1..NumCust
\* customer ids whose text has no numeric form (float(id) raises ValueError)
NonNumericIds == {NumCust}
Totals == {50, 500, 5000}
\* NULL: a value that did not parse; 61 ticks = 30 days, 122 = 61, 183 = 91
Dates == {NULL, 0, 61, 183}
Countries == {"Germany", "France"}
Requests == {1, 2}

RevenueRow == [customer_id : CustomerIds, total : Totals, date : {0}, country : {"Germany"}]
ActivityRow == [customer_id : CustomerIds, total : {500}, date : Dates, country : {"Germany"}]
RecencyRow == [customer_id : {1, NumCust}, total : {500}, date : {NULL, 0, 183}, country : {"Germany"}]
RegionRow == [customer_id : {1, NumCust}, total : {500}, date : {0}, country : Countries]

RowRank(r) ==
    ((r.customer_id * 10000 + r.total) * 1000 + (r.date + 1)) * 2
        + (IF r.country = "Germany" THEN 0 ELSE 1)

\* row tables of at most MaxRows rows over one family, in canonical order
Tables(Row) ==
    UNION { { t \in [1..n -> Row] :
                \A i \in 1..n : \A j \in 1..n : i < j => RowRank(t[i]) <= RowRank(t[j]) }
            : n \in 0..MaxRows }

\* ---------------------------------------------------------------- helpers
RECURSIVE SumOver(_, _)
SumOver(f, S) ==
    IF S = {} THEN 0
    ELSE LET x == CHOOSE y \in S : TRUE IN f[x] + SumOver(f, S \ {x})

\* round(num / den, 0) for num >= 0, den > 0
RoundDiv(num, den) == (2 * num + den) \div (2 * den)

\* round(x, 2) of an amount of whole EUR, in hundredths
Round2(x) == 100 * x

Perms(S) == { p \in [1..Cardinality(S) -> S] : \A i, j \in DOMAIN p : i # j => p[i] # p[j] }

\* list.sort(key=..., reverse=True): stable, descending; keys[i] is the key of s[i]
SortDesc(s, keys) ==
    LET pos(i) == Cardinality({ j \in DOMAIN s : keys[j] > keys[i] })
                  + Cardinality({ j \in DOMAIN s : j < i /\ keys[j] = keys[i] }) + 1
    IN  [ k \in DOMAIN s |-> s[CHOOSE i \in DOMAIN s : pos(i) = k] ]

\* ------------------------------------------------- the uploaded CSV file
\* columns: the header; dateDtype: what the loader makes of the date column by
\* line 53 ("temporal": a Datetime column, NULL where a value did not parse;
\* "numeric": a column of numbers, left as it is; "text": a Utf8 column in
\* which no value matches a datetime pattern); rows: the records
NoDateValues(rows) == \A i \in DOMAIN rows : rows[i].date = NULL

Files(Row) ==
    { f \in [columns : {AllColumns}, dateDtype : {"temporal", "numeric", "text"}, rows : Tables(Row)] :
        f.dateDtype # "temporal" => (f.rows # <<>> /\ NoDateValues(f.rows)) }

WithoutColumn(f, col) == [f EXCEPT !.columns = @ \ {col}]

\* ------------------------------------------------ analyze_csv: aggregator
Kunden(rows) == { rows[i].customer_id : i \in DOMAIN rows }

RowsOf(rows, c) == { i \in DOMAIN rows : rows[i].customer_id = c }

TotalOf(rows) == [ i \in DOMAIN rows |-> rows[i].total ]

kunden_umsatz(rows) ==
    [ c \in Kunden(rows) |->
        [ anzahl_bestellungen |-> Cardinality(RowsOf(rows, c)),
          gesamt_umsatz |-> SumOver(TotalOf(rows), RowsOf(rows, c)),
          durchschnitt_bestellung |->
              [ num |-> SumOver(TotalOf(rows), RowsOf(rows, c)),
                den |-> Cardinality(RowsOf(rows, c)) ] ] ]

Umsatz(ku) == [ c \in DOMAIN ku |-> ku[c].gesamt_umsatz ]

\* ------------------------------------------- analyze_csv: revenue segments
\* Series.quantile(0.9), polars' default interpolation "nearest": the value at
\* index round(0.9 * (n - 1)) of the ascending values
QuantileIdx(n) == RoundDiv(9 * (n - 1), 10)

quantile(ku) ==
    LET k == QuantileIdx(Cardinality(DOMAIN ku))
    IN  CHOOSE v \in { ku[c].gesamt_umsatz : c \in DOMAIN ku } :
            /\ Cardinality({ c \in DOMAIN ku : ku[c].gesamt_umsatz < v }) <= k
            /\ k < Cardinality({ c \in DOMAIN ku : ku[c].gesamt_umsatz <= v })

vip_df(ku, vip_threshold) == { c \in DOMAIN ku : ku[c].gesamt_umsatz >= vip_threshold }

premium_df(ku, vip_threshold) ==
    { c \in DOMAIN ku : ku[c].gesamt_umsatz >= PremiumMin /\ ku[c].gesamt_umsatz < vip_threshold }

standard_df(ku) ==
    { c \in DOMAIN ku : ku[c].gesamt_umsatz >= StandardMin /\ ku[c].gesamt_umsatz < PremiumMin }

gering_df(ku) == { c \in DOMAIN ku : ku[c].gesamt_umsatz < StandardMin }

segment_row(ku, segment_name, segment_df) ==
    LET segment_umsatz == SumOver(Umsatz(ku), segment_df)
        total_umsatz == SumOver(Umsatz(ku), DOMAIN ku)
    IN  [ umsatz_segment |-> segment_name,
          anzahl_kunden |-> Cardinality(segment_df),
          segment_umsatz |-> Round2(segment_umsatz),
          avg_umsatz |-> IF segment_df # {}
                         THEN RoundDiv(100 * segment_umsatz, Cardinality(segment_df))
                         ELSE 0,
          umsatz_anteil_prozent |-> IF total_umsatz > 0
                                    THEN RoundDiv(10000 * segment_umsatz, total_umsatz)
                                    ELSE 0 ]

\* report_umsatz, were the rows of empty segments left out
report_umsatz_nonempty(ku, vip_threshold) ==
    LET rows == << segment_row(ku, "VIP", vip_df(ku, vip_threshold)),
                   segment_row(ku, "Premium", premium_df(ku, vip_threshold)),
                   segment_row(ku, "Standard", standard_df(ku)),
                   segment_row(ku, "Gering", gering_df(ku)) >>
        kept == SelectSeq(rows, LAMBDA row : row.anzahl_kunden > 0)
    IN  SortDesc(kept, [ i \in DOMAIN kept |-> kept[i].segment_umsatz ])

report_umsatz(ku, vip_threshold) ==
    LET rows == << segment_row(ku, "VIP", vip_df(ku, vip_threshold)),
                   segment_row(ku, "Premium", premium_df(ku, vip_threshold)),
                   segment_row(ku, "Standard", standard_df(ku)),
                   segment_row(ku, "Gering", gering_df(ku)) >>
    IN  SortDesc(rows, [ i \in DOMAIN rows |-> rows[i].segment_umsatz ])

\* ------------------------------------------ analyze_csv: activity segments
MaxOf(S) == IF S = {} THEN NULL ELSE CHOOSE m \in S : \A x \in S : x <= m

\* max_date, were it the date of the last row (a file taken to be chronological)
max_date_of_last_row(rows) == IF rows = << >> THEN NULL ELSE rows[Len(rows)].date

\* Series.max(): nulls are skipped, null when nothing is left
max_date(rows) == MaxOf({ rows[i].date : i \in DOMAIN rows } \ {NULL})

letzte_bestellung(rows, c) == MaxOf({ rows[i].date : i \in RowsOf(rows, c) } \ {NULL})

\* (max_date - letzte_bestellung).dt.total_days(): whole days, null stays null
total_days(maxd, letzte) ==
    IF maxd = NULL \/ letzte = NULL THEN NULL ELSE (maxd - letzte) \div TicksPerDay

kunden_last_order(rows) ==
    [ c \in Kunden(rows) |->
        [ letzte_bestellung |-> letzte_bestellung(rows, c),
          tage_inaktiv |-> total_days(max_date(rows), letzte_bestellung(rows, c)) ] ]

\* pl.DataFrame(): the empty frame of the except branch
EmptyFrame == << >>

\* aktiv, were the null of a customer without date compared as a number
aktiv_null_as_number(klo) == { c \in DOMAIN klo : klo[c].tage_inaktiv <= AktivMaxTage }

\* a comparison with null is null, and filter() drops the row
aktiv(klo) ==
    { c \in DOMAIN klo : klo[c].tage_inaktiv # NULL /\ klo[c].tage_inaktiv <= AktivMaxTage }

inaktiv(klo) ==
    { c \in DOMAIN klo : /\ klo[c].tage_inaktiv # NULL
                         /\ klo[c].tage_inaktiv > AktivMaxTage
                         /\ klo[c].tage_inaktiv <= InaktivMaxTage }

verloren(klo) ==
    { c \in DOMAIN klo : klo[c].tage_inaktiv # NULL /\ klo[c].tage_inaktiv > InaktivMaxTage }

aktivitaet_row(ku, name, seg) ==
    [ aktivitaet_segment |-> name,
      anzahl_kunden |-> Cardinality(seg),
      segment_umsatz |-> Round2(SumOver(Umsatz(ku), seg)),
      avg_umsatz |-> IF seg # {}
                     THEN RoundDiv(100 * SumOver(Umsatz(ku), seg), Cardinality(seg))
                     ELSE 0 ]

report_aktivitaet(ku, klo) ==
    LET rows == << aktivitaet_row(ku, "Aktiv", aktiv(klo)),
                   aktivitaet_row(ku, "Inaktiv", inaktiv(klo)),
                   aktivitaet_row(ku, "Verloren", verloren(klo)) >>
    IN  SortDesc(rows, [ i \in DOMAIN rows |-> rows[i].segment_umsatz ])

\* whether the try block of lines 114-167 raises: .dt.total_days() on a column
\* that is no Duration always does; with a Datetime column that holds no value
\* max_date is None, and None - Expr raises or yields nulls with the polars build
ActivityOutcomes(file) ==
    IF file.dateDtype = "numeric" THEN {"raises"}
    ELSE IF max_date(file.rows) = NULL THEN {"raises", "ok"}
    ELSE {"ok"}

\* ------------------------------------------------ analyze_csv: DACH report
dach_kunden_ids(rows) ==
    { rows[i].customer_id : i \in { j \in DOMAIN rows : rows[j].country \in DACH_COUNTRIES } }

dach_row(ku, flag, seg) ==
    [ ist_dach_kunde |-> flag,
      anzahl_kunden |-> Cardinality(seg),
      gesamt_umsatz |-> Round2(SumOver(Umsatz(ku), seg)),
      avg_umsatz |-> RoundDiv(100 * SumOver(Umsatz(ku), seg), Cardinality(seg)) ]

\* report_dach, were the country column not looked for
report_dach_unguarded(file, ku) ==
    LET dach_kunden == { c \in DOMAIN ku : c \in dach_kunden_ids(file.rows) }
        nicht_dach_kunden == { c \in DOMAIN ku : c \notin dach_kunden_ids(file.rows) }
    IN  (IF dach_kunden # {} THEN << dach_row(ku, "Ja", dach_kunden) >> ELSE << >>)
        \o (IF nicht_dach_kunden # {}
            THEN << dach_row(ku, "Nein", nicht_dach_kunden) >> ELSE << >>)

report_dach(file, ku) ==
    LET dach_kunden == { c \in DOMAIN ku : c \in dach_kunden_ids(file.rows) }
        nicht_dach_kunden == { c \in DOMAIN ku : c \notin dach_kunden_ids(file.rows) }
    IN  IF "country" \notin file.columns THEN << >>
        ELSE (IF dach_kunden # {} THEN << dach_row(ku, "Ja", dach_kunden) >> ELSE << >>)
             \o (IF nicht_dach_kunden # {}
                 THEN << dach_row(ku, "Nein", nicht_dach_kunden) >> ELSE << >>)

LandRows(rows, land) == { i \in DOMAIN rows : rows[i].country = land }

land_data(rows, land) ==
    [ country |-> land,
      anzahl_bestellungen |-> Cardinality(LandRows(rows, land)),
      gesamt_umsatz |-> Round2(SumOver(TotalOf(rows), LandRows(rows, land))),
      avg_bestellung |-> RoundDiv(100 * SumOver(TotalOf(rows), LandRows(rows, land)),
                                  Cardinality(LandRows(rows, land))) ]

\* group_by('country').sort('gesamt_umsatz', descending=True): the order of
\* countries of equal revenue is any
laender_stats(file) ==
    IF "country" \notin file.columns THEN { << >> }
    ELSE { p \in Perms({ file.rows[i].country : i \in DOMAIN file.rows }) :
             \A i, j \in DOMAIN p :
                 i < j => land_data(file.rows, p[i]).gesamt_umsatz
                              >= land_data(file.rows, p[j]).gesamt_umsatz }

IsDach(land) == land \in DACH_COUNTRIES

IsNotDach(land) == land \notin DACH_COUNTRIES

report_dach_laender(file, stats) ==
    LET lands == SelectSeq(stats, IsDach)
    IN  [ i \in DOMAIN lands |-> land_data(file.rows, lands[i]) ]

report_andere_laender(file, stats) ==
    LET lands == SelectSeq(stats, IsNotDach)
    IN  [ i \in DOMAIN lands |-> land_data(file.rows, lands[i]) ]

\* ------------------------------------------- analyze_csv: inactive VIPs
\* vip_kunden.join(kunden_last_order, how='left').filter(tage_inaktiv > 30)
inaktive_vip_set(ku, klo, vip_threshold) ==
    IF klo = EmptyFrame \/ vip_df(ku, vip_threshold) = {} THEN {}
    ELSE { c \in vip_df(ku, vip_threshold) :
             klo[c].tage_inaktiv # NULL /\ klo[c].tage_inaktiv > AktivMaxTage }

Min(a, b) == IF a <= b THEN a ELSE b

\* .sort('gesamt_umsatz', descending=True).head(30): the order of customers of
\* equal revenue is any
inaktive_vips(ku, klo, vip_threshold) ==
    { SubSeq(p, 1, Min(TopN, Len(p))) :
        p \in { q \in Perms(inaktive_vip_set(ku, klo, vip_threshold)) :
                  \A i, j \in DOMAIN q :
                      i < j => ku[q[i]].gesamt_umsatz >= ku[q[j]].gesamt_umsatz } }

\* '%Y-%m-%d'
strftime(t) == IF t = NULL THEN NULL ELSE t \div TicksPerDay

vip_entry(ku, klo, c) ==
    [ customer_id |-> c,
      gesamt_umsatz |-> Round2(ku[c].gesamt_umsatz),
      anzahl_bestellungen |-> ku[c].anzahl_bestellungen,
      letzte_bestellung |-> strftime(klo[c].letzte_bestellung),
      tage_inaktiv |-> IF klo[c].tage_inaktiv # NULL THEN klo[c].tage_inaktiv ELSE 0 ]

\* the loop of lines 260-273: float(row['customer_id']) raises on an id that is
\* no number, the except of line 278 ends the loop and keeps what was appended
top_inaktive_vips(ku, klo, frame) ==
    LET bad == { i \in DOMAIN frame : frame[i] \in NonNumericIds }
        n == IF bad = {} THEN Len(frame)
             ELSE (CHOOSE i \in bad : \A j \in bad : i <= j) - 1
    IN  [ i \in 1..n |-> vip_entry(ku, klo, frame[i]) ]

\* ---------------------------------- analyze_csv lines 55-301, as one value
\* now: datetime.now() of line 173; outcome: how the try block of line 114
\* ends; frame: the sorted inactive VIPs; stats: the sorted countries
analyze_csv(file, now, outcome, frame, stats) ==
    LET ku == kunden_umsatz(file.rows)
        thr == quantile(ku)
        klo == IF outcome = "raises" THEN EmptyFrame ELSE kunden_last_order(file.rows)
        maxd == IF outcome = "raises" THEN now ELSE max_date(file.rows)
        ivs == inaktive_vip_set(ku, klo, thr)
    IN  [ kunden_umsatz |-> ku,
          vip_threshold |-> thr,
          vip_df |-> vip_df(ku, thr),
          premium_df |-> premium_df(ku, thr),
          standard_df |-> standard_df(ku),
          gering_df |-> gering_df(ku),
          activity |-> outcome,
          max_date |-> maxd,
          kunden_last_order |-> klo,
          aktiv |-> IF outcome = "raises" THEN {} ELSE aktiv(klo),
          inaktiv |-> IF outcome = "raises" THEN {} ELSE inaktiv(klo),
          verloren |-> IF outcome = "raises" THEN {} ELSE verloren(klo),
          inaktive_vips |-> frame,
          dashboard_data |->
            [ maxDate |-> strftime(maxd),
              kundenGesamt |-> Cardinality(DOMAIN ku),
              inaktiveVips |-> Cardinality(ivs),
              verlorenerUmsatz |-> Round2(SumOver(Umsatz(ku), ivs)),
              reportUmsatz |-> report_umsatz(ku, thr),
              reportAktivitaet |-> IF outcome = "raises" THEN << >>
                                   ELSE report_aktivitaet(ku, klo),
              reportDach |-> report_dach(file, ku),
              reportDachLaender |-> report_dach_laender(file, stats),
              reportAndereLaender |-> report_andere_laender(file, stats),
              topInaktiveVips |-> top_inaktive_vips(ku, klo, frame) ] ]

\* -------------------------------------------------------------- the state
VARIABLES
    csv,        \* csv[r]: the file the client of request r uploads
    uploads,    \* the uploads folder: file name (a timestamp) -> content
    dataFile,   \* data.json, the one output location of every run
    pc,         \* pc[r]: where request r and its analyzer subprocess stand
    filepath,   \* filepath[r]: the name request r saved its upload under
    run,        \* run[r]: the locals of r's analyze_csv once computed
    response,   \* response[r]: what upload_csv answered
    lastRead    \* the last answer of GET /api/data

vars == << csv, uploads, dataFile, pc, filepath, run, response, lastRead >>

ClockValues == { k * TicksPerDay : k \in 0..MaxClock }

NoFile == [columns |-> {}, dateDtype |-> "none", rows |-> << >>]
NoRun == [activity |-> "none"]
NoResponse == [status |-> 0]
Absent == [kind |-> "absent"]

InFlight(r) == pc[r] \notin {"idle", "done"}

\* the clients send their requests in turn, each after the answer to the last
MaySend(r) == \A q \in Requests : q < r => pc[q] = "done"

\* ------------------------------------------------- upload_csv, lines 60-70
\* a request without a file part (or without a .csv file name) is answered 400
UploadRejected(r) ==
    /\ pc[r] = "idle"
    /\ MaySend(r)
    /\ csv[r] = NoFile
    /\ pc' = [pc EXCEPT ![r] = "done"]
    /\ response' = [response EXCEPT ![r] = [status |-> 400]]
    /\ UNCHANGED << csv, uploads, dataFile, filepath, run, lastRead >>

\* upload_csv, lines 72-91: save under a timestamp name, start the analyzer
UploadCsv(r) ==
    /\ pc[r] = "idle"
    /\ MaySend(r)
    /\ csv[r] # NoFile
    /\ \E now \in ClockValues :
          /\ uploads' = [uploads EXCEPT ![now] = csv[r]]
          /\ filepath' = [filepath EXCEPT ![r] = now]
    /\ pc' = [pc EXCEPT ![r] = "spawned"]
    /\ UNCHANGED << csv, dataFile, run, response, lastRead >>

\* ------------------------------------------------------------ the analyzer
\* the ways analyze_csv ends before it has a report: sys.exit(1) of lines 26,
\* 37 and 47, the ComputeError of line 52 when no date pattern can be inferred,
\* the TypeError of line 76 when there is no customer (quantile is None)
\* Fatal, without the column check of lines 43-47
Fatal_unvalidated(file) ==
    \/ file = NoFile
    \/ file.dateDtype = "text"
    \/ file.rows = << >>

\* Fatal, were a date column without dates an error like the others
Fatal_without_dates(file) ==
    \/ file = NoFile
    \/ ~(required_columns \subseteq file.columns)
    \/ file.dateDtype \in {"text", "numeric"}
    \/ file.rows = << >>
    \/ NoDateValues(file.rows)

Fatal(file) ==
    \/ file = NoFile
    \/ ~(required_columns \subseteq file.columns)
    \/ file.dateDtype = "text"
    \/ file.rows = << >>

\* line 52 on a Utf8 column without a recognisable value: polars raises, or
\* (strict=False) gives a column of nulls
Loaded(file) ==
    IF file.dateDtype = "text" /\ required_columns \subseteq file.columns
    THEN { [file EXCEPT !.dateDtype = "temporal"] }
    ELSE IF Fatal(file) THEN {} ELSE { file }

AnalyzerAbort(r) ==
    /\ pc[r] = "spawned"
    /\ Fatal(uploads[filepath[r]])
    /\ pc' = [pc EXCEPT ![r] = "failed"]
    /\ UNCHANGED << csv, uploads, dataFile, filepath, run, response, lastRead >>

\* lines 55-301
AnalyzerCompute(r) ==
    /\ pc[r] = "spawned"
    /\ \E file \in Loaded(uploads[filepath[r]]) :
       \E now \in ClockValues :
       \E outcome \in ActivityOutcomes(file) :
       \E stats \in laender_stats(file) :
       \E frame \in inaktive_vips(kunden_umsatz(file.rows),
                                  IF outcome = "raises" THEN EmptyFrame
                                  ELSE kunden_last_order(file.rows),
                                  quantile(kunden_umsatz(file.rows))) :
          run' = [run EXCEPT ![r] = analyze_csv(file, now, outcome, frame, stats)]
    /\ pc' = [pc EXCEPT ![r] = "assembled"]
    /\ UNCHANGED << csv, uploads, dataFile, filepath, response, lastRead >>

\* line 312: open(output_path, 'w') truncates data.json
AnalyzerOpen(r) ==
    /\ pc[r] = "assembled"
    /\ dataFile' = [kind |-> "partial", data |-> run[r].dashboard_data]
    /\ pc' = [pc EXCEPT ![r] = "writing"]
    /\ UNCHANGED << csv, uploads, filepath, run, response, lastRead >>

\* lines 313-323: json.dump, close, return
AnalyzerDump(r) ==
    /\ pc[r] = "writing"
    /\ dataFile' = [kind |-> "complete", data |-> run[r].dashboard_data]
    /\ pc' = [pc EXCEPT ![r] = "exited"]
    /\ UNCHANGED << csv, uploads, filepath, run, response, lastRead >>

\* ---------------------------------------------- upload_csv, lines 93-138
\* returncode != 0
UploadFail(r) ==
    /\ pc[r] = "failed"
    /\ pc' = [pc EXCEPT ![r] = "done"]
    /\ response' = [response EXCEPT ![r] = [status |-> 500]]
    /\ filepath' = [filepath EXCEPT ![r] = NULL]
    /\ UNCHANGED << csv, uploads, dataFile, run, lastRead >>

\* returncode 0: read data.json back, remove the upload, answer
UploadRespond(r) ==
    /\ pc[r] = "exited"
    /\ pc' = [pc EXCEPT ![r] = "done"]
    /\ IF dataFile.kind = "complete"
       THEN /\ response' = [response EXCEPT ![r] = [status |-> 200, data |-> dataFile.data]]
            /\ uploads' = [uploads EXCEPT ![filepath[r]] = NoFile]
       ELSE /\ response' = [response EXCEPT ![r] = [status |-> 500]]
            /\ UNCHANGED uploads
    /\ filepath' = [filepath EXCEPT ![r] = NULL]
    /\ UNCHANGED << csv, dataFile, run, lastRead >>

\* subprocess.run(timeout=600): the analyzer is killed where it stands
UploadTimeout(r) ==
    /\ pc[r] \in {"spawned", "assembled", "writing"}
    /\ pc' = [pc EXCEPT ![r] = "done"]
    /\ run' = [run EXCEPT ![r] = NoRun]
    /\ response' = [response EXCEPT ![r] = [status |-> 500]]
    /\ filepath' = [filepath EXCEPT ![r] = NULL]
    /\ UNCHANGED << csv, uploads, dataFile, lastRead >>

\* ------------------------------------ get_dashboard_data, lines 141-160
GetDashboardData ==
    /\ lastRead' = IF dataFile.kind = "absent" THEN [status |-> 404]
                   ELSE IF dataFile.kind = "partial" THEN [status |-> 500]
                   ELSE [status |-> 200, data |-> dataFile.data]
    /\ UNCHANGED << csv, uploads, dataFile, pc, filepath, run, response >>

\* ------------------------------------------------------- the specification
\* the files of the first client: tables over each family of rows, some with
\* a required column left out
Inputs ==
    Files(RevenueRow) \cup Files(ActivityRow) \cup Files(RecencyRow) \cup Files(RegionRow)
        \cup { WithoutColumn(f, c) : f \in Files(RegionRow), c \in required_columns }

\* what the second client sends after a first upload of f: no file at all, or
\* (for the smaller families) the same rows, as they are or with the country
\* or the date column left out
SecondUploads(f) ==
    {NoFile} \cup
        IF f \in Files(RecencyRow) \cup Files(RegionRow)
        THEN { f, WithoutColumn(f, "country"), WithoutColumn(f, "date") }
        ELSE {}

Init ==
    /\ \E f \in Inputs :
       \E g \in SecondUploads(f) :
          csv = [ r \in Requests |-> IF r = 1 THEN f ELSE g ]
    /\ uploads = [ t \in ClockValues |-> NoFile ]
    /\ dataFile = Absent
    /\ pc = [ r \in Requests |-> "idle" ]
    /\ filepath = [ r \in Requests |-> NULL ]
    /\ run = [ r \in Requests |-> NoRun ]
    /\ response = [ r \in Requests |-> NoResponse ]
    /\ lastRead = NoResponse

Next ==
    \/ \E r \in Requests :
          \/ UploadRejected(r)
          \/ UploadCsv(r)
          \/ AnalyzerAbort(r)
          \/ AnalyzerCompute(r)
          \/ AnalyzerOpen(r)
          \/ AnalyzerDump(r)
          \/ UploadFail(r)
          \/ UploadRespond(r)
          \/ UploadTimeout(r)
    \/ GetDashboardData

Spec == Init /\ [][Next]_vars

\* ------------------------------------------------------------------ claims
Computed(r) == run[r] # NoRun

\* the customers of request r's file, read off the rows
CustomersOf(r) == { csv[r].rows[i].customer_id : i \in DOMAIN csv[r].rows }

\* the customers of request r's file with a last order date
Resolvable(r) ==
    { csv[r].rows[i].customer_id : i \in { j \in DOMAIN csv[r].rows : csv[r].rows[j].date # NULL } }

RevenueSegments(r) ==
    << run[r].vip_df, run[r].premium_df, run[r].standard_df, run[r].gering_df >>

ReportedCount(report, i) == report[i].anzahl_kunden

\* C1: the four revenue segments VIP, Premium, Standard and Gering are pairwise
\* disjoint, together hold every customer, and their reported customer counts
\* sum to kundenGesamt
C1_RevenuePartition ==
    \A r \in Requests :
        Computed(r) =>
            LET seg == RevenueSegments(r)
                rep == run[r].dashboard_data.reportUmsatz
            IN  /\ \A i, j \in 1..4 : i # j => seg[i] \cap seg[j] = {}
                /\ seg[1] \cup seg[2] \cup seg[3] \cup seg[4] = CustomersOf(r)
                /\ rep[1].anzahl_kunden + rep[2].anzahl_kunden
                       + rep[3].anzahl_kunden + rep[4].anzahl_kunden
                   = run[r].dashboard_data.kundenGesamt

\* C2: Aktiv, Inaktiv and Verloren are pairwise disjoint and together hold exactly
\* the customers with a resolvable last order date, each in the segment its
\* days_inactive names; a customer without any resolvable date is in none of
\* them and is still counted in the revenue report
C2_ActivityPartition ==
    \A r \in Requests :
        Computed(r) =>
            /\ run[r].aktiv \cap run[r].inaktiv = {}
            /\ run[r].aktiv \cap run[r].verloren = {}
            /\ run[r].inaktiv \cap run[r].verloren = {}
            /\ run[r].aktiv \cup run[r].inaktiv \cup run[r].verloren = Resolvable(r)
            /\ \A c \in Resolvable(r) :
                  LET d == run[r].kunden_last_order[c].tage_inaktiv
                  IN  /\ c \in run[r].aktiv <=> d <= 30
                      /\ c \in run[r].inaktiv <=> (d > 30 /\ d <= 90)
                      /\ c \in run[r].verloren <=> d > 90
            /\ \A c \in CustomersOf(r) \ Resolvable(r) :
                  c \in run[r].vip_df \cup run[r].premium_df
                            \cup run[r].standard_df \cup run[r].gering_df
            /\ run[r].dashboard_data.kundenGesamt = Cardinality(CustomersOf(r))
            /\ \A i \in DOMAIN run[r].dashboard_data.reportAktivitaet :
                  LET row == run[r].dashboard_data.reportAktivitaet[i]
                  IN  row.anzahl_kunden =
                        Cardinality(CASE row.aktivitaet_segment = "Aktiv" -> run[r].aktiv
                                      [] row.aktivitaet_segment = "Inaktiv" -> run[r].inaktiv
                                      [] OTHER -> run[r].verloren)

\* a run with customers in two activity segments and one without any date
C2_Witness ==
    \E r \in Requests :
        /\ Computed(r)
        /\ run[r].aktiv # {}
        /\ run[r].inaktiv \cup run[r].verloren # {}
        /\ CustomersOf(r) \ Resolvable(r) # {}

MissingRequired(r) ==
    /\ csv[r] # NoFile
    /\ ~({"customer_id", "transaction_id", "total", "date"} \subseteq csv[r].columns)

\* C3: a run on a file without one of customer_id, transaction_id, total, date
\* ends in the fatal state: no step of it changes data.json, it computes no
\* report, and the request is not answered with a report
C3_MissingColumnFatal ==
    [][ \A r \in Requests :
          (MissingRequired(r) /\ pc'[r] # pc[r]) =>
              /\ dataFile' = dataFile
              /\ run'[r] = NoRun
              /\ pc'[r] \in {"spawned", "failed", "done"}
              /\ response'[r].status \in {0, 500} ]_vars

\* a run without the date column has ended fatally after an earlier run wrote a
\* report, and the report is still there
C3_Witness ==
    /\ MissingRequired(2)
    /\ pc[2] = "done"
    /\ response[2].status = 500
    /\ response[1].status = 200
    /\ dataFile = [kind |-> "complete", data |-> response[1].data]

Answered(r) == response[r].status = 200

\* C4: two runs on the same file contents answer with the same report, maxDate
\* included, whatever the clock reads (runs that sorted customers of equal
\* revenue alike are compared)
C4_ClockIndependent ==
    \A r, q \in Requests :
        ( /\ Answered(r) /\ Answered(q)
          /\ csv[r] = csv[q]
          /\ run[r].inaktive_vips = run[q].inaktive_vips
          /\ run[r].activity = run[q].activity )
        => response[r].data = response[q].data

\* C5: GET /api/data never meets a data.json that is no complete document
C5_AtomicPublish == lastRead.status \in {0, 404, 200}

SegmentNames == {"VIP", "Premium", "Standard", "Gering"}

\* the customers of request r's file whose orders sum to v
WithRevenue(r, v) ==
    { c \in CustomersOf(r) :
        SumOver(TotalOf(csv[r].rows), { i \in DOMAIN csv[r].rows : csv[r].rows[i].customer_id = c }) = v }

Scenario_50_500_5000(r) ==
    /\ Cardinality(CustomersOf(r)) = 3
    /\ \A v \in {50, 500, 5000} : Cardinality(WithRevenue(r, v)) = 1

RowOf(report, name) ==
    { i \in DOMAIN report : report[i].umsatz_segment = name }

\* C6 as the spec has it: reportUmsatz holds a row only for a segment with
\* customers, and for revenues 50, 500, 5000 no Premium row
C6_EmptySegmentsOmitted ==
    \A r \in Requests :
        Computed(r) =>
            LET rep == run[r].dashboard_data.reportUmsatz
            IN  /\ \A i \in DOMAIN rep : rep[i].anzahl_kunden > 0
                /\ Scenario_50_500_5000(r) => RowOf(rep, "Premium") = {}

\* C6, amended: reportUmsatz always holds exactly one row for each of VIP,
\* Premium, Standard and Gering, ordered by segment revenue descending; the row
\* of a segment without customers is a row of zeros; for revenues 50, 500, 5000
\* Gering = {50}, Standard = {500}, VIP = {5000} and the Premium row is zero
C6_AllSegmentsReported ==
    \A r \in Requests :
        Computed(r) =>
            LET rep == run[r].dashboard_data.reportUmsatz
                seg == [ n \in SegmentNames |->
                           CASE n = "VIP" -> run[r].vip_df
                             [] n = "Premium" -> run[r].premium_df
                             [] n = "Standard" -> run[r].standard_df
                             [] OTHER -> run[r].gering_df ]
            IN  /\ Len(rep) = 4
                /\ \A n \in SegmentNames : Cardinality(RowOf(rep, n)) = 1
                /\ \A i \in DOMAIN rep :
                      /\ rep[i].anzahl_kunden = Cardinality(seg[rep[i].umsatz_segment])
                      /\ rep[i].anzahl_kunden = 0 =>
                            /\ rep[i].segment_umsatz = 0
                            /\ rep[i].avg_umsatz = 0
                            /\ rep[i].umsatz_anteil_prozent = 0
                      /\ i > 1 => rep[i - 1].segment_umsatz >= rep[i].segment_umsatz
                /\ Scenario_50_500_5000(r) =>
                      /\ run[r].gering_df = WithRevenue(r, 50)
                      /\ run[r].standard_df = WithRevenue(r, 500)
                      /\ run[r].vip_df = WithRevenue(r, 5000)
                      /\ run[r].premium_df = {}
                      /\ \E i \in DOMAIN rep :
                            rep[i].umsatz_segment = "Premium" /\ rep[i].anzahl_kunden = 0

\* a run on three customers with revenues 50, 500 and 5000
C6_Witness ==
    \E r \in Requests : Computed(r) /\ Scenario_50_500_5000(r) /\ pc[r] = "exited"

\* the dates of request r's file and of one customer in it
DatesOf(r) == { csv[r].rows[i].date : i \in DOMAIN csv[r].rows } \ {NULL}

DatesOfCustomer(r, c) ==
    { csv[r].rows[i].date : i \in { j \in DOMAIN csv[r].rows : csv[r].rows[j].customer_id = c } }
        \ {NULL}

Latest(S) == CHOOSE m \in S : \A x \in S : x <= m

\* ticks between the latest date of the file and the latest date of customer c
Gap(r, c) == Latest(DatesOf(r)) - Latest(DatesOfCustomer(r, c))

RevenueOf(r, c) ==
    SumOver(TotalOf(csv[r].rows), { i \in DOMAIN csv[r].rows : csv[r].rows[i].customer_id = c })

\* the VIPs of request r's run that have a last order date more than 30 days
\* before the latest date of the file
InactiveVipSet(r) ==
    { c \in Resolvable(r) :
        /\ RevenueOf(r, c) >= run[r].vip_threshold
        /\ Gap(r, c) >= 31 * TicksPerDay }

Listed(r) ==
    { run[r].dashboard_data.topInaktiveVips[i].customer_id :
        i \in DOMAIN run[r].dashboard_data.topInaktiveVips }

\* C7: inaktiveVips counts exactly the VIPs with a resolvable last order date and
\* more than 30 days of inactivity, topInaktiveVips lists only such customers,
\* and lists each of them that is among the top N by revenue
C7_InactiveVips ==
    \A r \in Requests :
        Computed(r) =>
            /\ run[r].dashboard_data.inaktiveVips = Cardinality(InactiveVipSet(r))
            /\ Listed(r) \subseteq InactiveVipSet(r)
            /\ Cardinality(Listed(r)) = Min(TopN, Cardinality(InactiveVipSet(r)))
            /\ \A c \in InactiveVipSet(r) \ Listed(r) :
                  \A d \in Listed(r) : RevenueOf(r, c) <= RevenueOf(r, d)

\* C8: every customer with a resolvable last order date has a days_inactive, the
\* number of whole days from that date to the latest date of the file: never
\* negative, and a function of the file alone
C8_DaysInactive ==
    \A r \in Requests :
        Computed(r) =>
            \A c \in Resolvable(r) :
                /\ run[r].activity = "ok"
                /\ c \in DOMAIN run[r].kunden_last_order
                /\ LET d == run[r].kunden_last_order[c].tage_inaktiv
                   IN  /\ d >= 0
                       /\ d * TicksPerDay <= Gap(r, c)
                       /\ Gap(r, c) < (d + 1) * TicksPerDay

\* a customer whose last order lies a whole number of days and a part of a day
\* before the latest date
C8_Witness ==
    \E r \in Requests :
        /\ Computed(r)
        /\ \E c \in Resolvable(r) :
              /\ run[r].kunden_last_order[c].tage_inaktiv >= 30
              /\ Gap(r, c) % TicksPerDay # 0

HasRequired(r) ==
    /\ csv[r] # NoFile
    /\ {"customer_id", "transaction_id", "total", "date"} \subseteq csv[r].columns

\* request q uploaded the file of request r with a country column added
CountryAdded(r, q) ==
    /\ HasRequired(r)
    /\ "country" \notin csv[r].columns
    /\ csv[q] = [csv[r] EXCEPT !.columns = @ \cup {"country"}]

\* C9: a file with the required columns and no country column is analysed like
\* any other: the run is not aborted for it, its report is written, the three
\* region lists are empty, and the revenue, activity and inactive-VIP sections
\* are those of the run on the same file with a country column
C9_NoCountryColumn ==
    \A r \in Requests :
        (HasRequired(r) /\ "country" \notin csv[r].columns) =>
            /\ pc[r] = "failed" => (csv[r].rows = << >> \/ csv[r].dateDtype = "text")
            /\ Computed(r) =>
                  /\ run[r].dashboard_data.reportDach = << >>
                  /\ run[r].dashboard_data.reportDachLaender = << >>
                  /\ run[r].dashboard_data.reportAndereLaender = << >>
            /\ pc[r] = "exited" =>
                  dataFile = [kind |-> "complete", data |-> run[r].dashboard_data]
            /\ \A q \in Requests :
                  ( /\ CountryAdded(r, q)
                    /\ Answered(r) /\ Answered(q)
                    /\ run[r].activity = run[q].activity
                    /\ run[r].inaktive_vips = run[q].inaktive_vips )
                  => /\ response[r].data.kundenGesamt = response[q].data.kundenGesamt
                     /\ response[r].data.reportUmsatz = response[q].data.reportUmsatz
                     /\ response[r].data.reportAktivitaet = response[q].data.reportAktivitaet
                     /\ response[r].data.inaktiveVips = response[q].data.inaktiveVips
                     /\ response[r].data.verlorenerUmsatz = response[q].data.verlorenerUmsatz
                     /\ response[r].data.topInaktiveVips = response[q].data.topInaktiveVips

\* both runs are answered: the file with two countries, and the same file
\* without its country column
C9_Witness ==
    \E r, q \in Requests :
        /\ CountryAdded(r, q)
        /\ Answered(r) /\ Answered(q)
        /\ response[q].data.reportDachLaender # << >>
        /\ response[q].data.reportAndereLaender # << >>
        /\ response[r].data.reportDach = << >>
        /\ response[r].data.kundenGesamt = 2

\* the customers of request r's file with revenue in the band of segment name
InBand(r, name) ==
    { c \in CustomersOf(r) :
        CASE name = "VIP" -> RevenueOf(r, c) >= run[r].vip_threshold
          [] name = "Premium" -> RevenueOf(r, c) >= 1000 /\ RevenueOf(r, c) < run[r].vip_threshold
          [] name = "Standard" -> RevenueOf(r, c) >= 200 /\ RevenueOf(r, c) < 1000
          [] OTHER -> RevenueOf(r, c) < 200 }

RevenueAt(r, k) ==
    CHOOSE v \in { RevenueOf(r, c) : c \in CustomersOf(r) } :
        /\ Cardinality({ c \in CustomersOf(r) : RevenueOf(r, c) < v }) <= k
        /\ k < Cardinality({ c \in CustomersOf(r) : RevenueOf(r, c) <= v })

\* ten times the linear-interpolation 90th percentile of the revenues of
\* request r's file: with h = 0.9 * (n - 1), ten times
\* r[floor(h)] + (h - floor(h)) * (r[ceil(h)] - r[floor(h)])
LinearPercentile90(r) ==
    LET h10 == 9 * (Cardinality(CustomersOf(r)) - 1)
        lo == h10 \div 10
        hi == IF h10 % 10 = 0 THEN lo ELSE lo + 1
    IN  10 * RevenueAt(r, lo) + (h10 % 10) * (RevenueAt(r, hi) - RevenueAt(r, lo))

\* the revenue segmentation and the inactive-VIP detection of request r's run
\* both compare against run[r].vip_threshold
SameThresholdUsed(r) ==
    /\ run[r].vip_df = { c \in CustomersOf(r) : RevenueOf(r, c) >= run[r].vip_threshold }
    /\ run[r].premium_df =
          { c \in CustomersOf(r) :
              RevenueOf(r, c) >= 1000 /\ RevenueOf(r, c) < run[r].vip_threshold }
    /\ run[r].dashboard_data.inaktiveVips = Cardinality(InactiveVipSet(r))

\* C11: vip_threshold is the linear-interpolation 90th percentile of the
\* customers' revenues, for every file with at least one customer, and the
\* revenue segments and the inactive-VIP detection use that same value
C11_LinearPercentile ==
    \A r \in Requests :
        Computed(r) =>
            /\ 10 * run[r].vip_threshold = LinearPercentile90(r)
            /\ SameThresholdUsed(r)

\* ------------------------------------------------ concurrent upload requests
\* upload_csv, lines 72-91, of a client that does not wait for the answers to
\* the other clients: the handlers of the requests run side by side
UploadCsvConcurrently(r) ==
    /\ pc[r] = "idle"
    /\ csv[r] # NoFile
    /\ \E now \in ClockValues :
          /\ uploads' = [uploads EXCEPT ![now] = csv[r]]
          /\ filepath' = [filepath EXCEPT ![r] = now]
    /\ pc' = [pc EXCEPT ![r] = "spawned"]
    /\ UNCHANGED << csv, dataFile, run, response, lastRead >>

\* what the other client uploads at the same time as f: the same rows, as they
\* are or with the country or the date column left out
ConcurrentUploads(f) == { f, WithoutColumn(f, "country"), WithoutColumn(f, "date") }

InitConcurrent ==
    /\ \E f \in Files(RegionRow) :
       \E g \in ConcurrentUploads(f) :
          csv = [ r \in Requests |-> IF r = 1 THEN f ELSE g ]
    /\ uploads = [ t \in ClockValues |-> NoFile ]
    /\ dataFile = Absent
    /\ pc = [ r \in Requests |-> "idle" ]
    /\ filepath = [ r \in Requests |-> NULL ]
    /\ run = [ r \in Requests |-> NoRun ]
    /\ response = [ r \in Requests |-> NoResponse ]
    /\ lastRead = NoResponse

NextConcurrent ==
    \/ \E r \in Requests :
          \/ UploadCsvConcurrently(r)
          \/ AnalyzerAbort(r)
          \/ AnalyzerCompute(r)
          \/ AnalyzerOpen(r)
          \/ AnalyzerDump(r)
          \/ UploadFail(r)
          \/ UploadRespond(r)
          \/ UploadTimeout(r)
    \/ GetDashboardData

SpecConcurrent == InitConcurrent /\ [][NextConcurrent]_vars

\* the reports analyze_csv can write for a file
ReportsOf(file) ==
    UNION { UNION { UNION { UNION {
        { analyze_csv(g, now, outcome, frame, stats).dashboard_data :
            frame \in inaktive_vips(kunden_umsatz(g.rows),
                                    IF outcome = "raises" THEN EmptyFrame
                                    ELSE kunden_last_order(g.rows),
                                    quantile(kunden_umsatz(g.rows))) }
        : stats \in laender_stats(g) }
        : outcome \in ActivityOutcomes(g) }
        : now \in ClockValues }
        : g \in Loaded(file) }

\* C12: whatever the interleaving of the concurrent upload requests, a request
\* answered with success carries in 'data' a report of the file this request
\* uploaded, never the report of the other request's file
C12_OwnReport ==
    \A r \in Requests :
        Answered(r) => response[r].data \in ReportsOf(csv[r])

=============================================================================
